---- MODULE Spec2Model ----
(***************************************************************************)
(* A model of reverse/extract_frontend_reverse.py: the quote-aware brace   *)
(* slicer, the declaration locator, the feature miners, the memoising      *)
(* extractor, the breadth-first component tree and the route aggregation   *)
(* of main().                                                              *)
(*                                                                         *)
(* Text is a sequence of one-character strings.  Offsets are the 0-based   *)
(* offsets of the Python code: the character at offset i of js is js[i+1]. *)
(***************************************************************************)
EXTENDS Integers, Sequences, FiniteSets, TLC

VARIABLES
    js,         \* the scanned source text
    start,      \* slice_brace_block: its start argument
    sl,         \* slice_brace_block: pc, i, depth, in_str, esc, end
    examined,   \* slice_brace_block: offsets read by the scan loop (ghost)
    reads,      \* slice_brace_block: number of reads  ch = js[i]  (ghost)
    cache,      \* build_component_extractor: name -> ComponentInfo
    gets,       \* every call of get so far, in order (ghost)
    pc,         \* where the run stands: main, tree, returned, done
    root,       \* collect_component_tree: its root argument
    max_depth,  \* collect_component_tree: its max_depth argument
    max_nodes,  \* collect_component_tree: its max_nodes argument
    out,        \* collect_component_tree: the result dictionary
    q,          \* collect_component_tree: the queue of <<name, depth>>
    seen,       \* collect_component_tree: the visited set
    tree_from,  \* Len(gets) when the current traversal began (ghost)
    ret,        \* the tree a direct call of collect_component_tree returned
    routes,     \* main: the route table, a list of <<route, component>>
    ri,         \* main: the position of the for loop in the route table
    root_info,  \* main: root_info of the current route
    pages,      \* main: the pages dictionary
    report      \* main: the routes of the report written at the end

slice_vars == <<start, sl, examined, reads>>

tree_vars == <<root, max_depth, max_nodes, out, q, seen, tree_from>>

main_vars == <<routes, ri, root_info, pages, report>>

run_vars == <<cache, gets, pc, tree_vars, ret, main_vars>>

vars == <<js, slice_vars, run_vars>>

-----------------------------------------------------------------------------
(* Characters *)

Lower == {"a","b","c","d","e","f","g","h","i","j","k","l","m",
          "n","o","p","q","r","s","t","u","v","w","x","y","z"}
Upper == {"A","B","C","D","E","F","G","H","I","J","K","L","M",
          "N","O","P","Q","R","S","T","U","V","W","X","Y","Z"}
Digit == {"0","1","2","3","4","5","6","7","8","9"}

\* Python None where the other values are strings
None == "None"

\* the back-tick character, which a TLA+ string literal cannot hold
Backtick == "BACKTICK"

\* the quote characters that open a literal
Quotes == {"\"", "'", Backtick}

\* js[i]
CharAt(text, i) == text[i + 1]

\* text[a:b] for 0 <= a, b
Slice(text, a, b) ==
    LET hi == IF b > Len(text) THEN Len(text) ELSE b
    IN  IF a >= hi THEN << >> ELSE SubSeq(text, a + 1, hi)

-----------------------------------------------------------------------------
(* slice_brace_block *)

\* js.find(ch, from): the least offset >= from holding ch, or -1
Find(text, ch, from) ==
    LET hits == {k \in from .. (Len(text) - 1) : CharAt(text, k) = ch}
    IN  IF hits = {} THEN -1
        ELSE CHOOSE k \in hits : \A m \in hits : k <= m

\* the state of the scan when the loop is entered
SliceEnter(brace_open) ==
    [pc |-> "loop", i |-> brace_open, depth |-> 0,
     in_str |-> None, esc |-> FALSE, end |-> -1]

\* SliceStep counting braces without regard to quoted literals
SliceStep_QuoteBlind(text, st) ==
    LET ch == CharAt(text, st.i) IN
    IF ch = "{" THEN [st EXCEPT !.depth = @ + 1, !.i = @ + 1]
    ELSE IF ch = "}" THEN
        IF st.depth - 1 = 0
        THEN [st EXCEPT !.depth = @ - 1, !.pc = "return", !.end = st.i + 1]
        ELSE [st EXCEPT !.depth = @ - 1, !.i = @ + 1]
    ELSE [st EXCEPT !.i = @ + 1]

\* SliceStep with the backslash test dropped: nothing is ever escaped
SliceStep_NoEscape(text, st) ==
    LET ch == CharAt(text, st.i) IN
    IF st.in_str # None THEN
        IF ch = st.in_str THEN [st EXCEPT !.in_str = None, !.i = @ + 1]
        ELSE [st EXCEPT !.i = @ + 1]
    ELSE IF ch \in Quotes THEN [st EXCEPT !.in_str = ch, !.i = @ + 1]
    ELSE IF ch = "{" THEN [st EXCEPT !.depth = @ + 1, !.i = @ + 1]
    ELSE IF ch = "}" THEN
        IF st.depth - 1 = 0
        THEN [st EXCEPT !.depth = @ - 1, !.pc = "return", !.end = st.i + 1]
        ELSE [st EXCEPT !.depth = @ - 1, !.i = @ + 1]
    ELSE [st EXCEPT !.i = @ + 1]

\* one iteration of the loop  while i < len(js)
SliceStep(text, st) ==
    LET ch == CharAt(text, st.i) IN
    IF st.in_str # None THEN
        IF st.esc THEN [st EXCEPT !.esc = FALSE, !.i = @ + 1]
        ELSE IF ch = "\\" THEN [st EXCEPT !.esc = TRUE, !.i = @ + 1]
        ELSE IF ch = st.in_str THEN [st EXCEPT !.in_str = None, !.i = @ + 1]
        ELSE [st EXCEPT !.i = @ + 1]
    ELSE IF ch \in Quotes THEN [st EXCEPT !.in_str = ch, !.i = @ + 1]
    ELSE IF ch = "{" THEN [st EXCEPT !.depth = @ + 1, !.i = @ + 1]
    ELSE IF ch = "}" THEN
        IF st.depth - 1 = 0
        THEN [st EXCEPT !.depth = @ - 1, !.pc = "return", !.end = st.i + 1]
        ELSE [st EXCEPT !.depth = @ - 1, !.i = @ + 1]
    ELSE [st EXCEPT !.i = @ + 1]

\* SliceFellOff returning the rest of the text instead of raising
SliceFellOff_ReturnsRest(st) == [st EXCEPT !.pc = "return", !.end = st.i]

\* the loop ran off the end of the text
SliceFellOff(st) == [st EXCEPT !.pc = "unterminated"]

\* no '{' at or after start
SliceNoBrace ==
    [pc |-> "no_brace", i |-> -1, depth |-> 0,
     in_str |-> None, esc |-> FALSE, end |-> -1]

RECURSIVE SliceLoop(_, _)
SliceLoop(text, st) ==
    IF st.pc # "loop" THEN st
    ELSE IF st.i < Len(text) THEN SliceLoop(text, SliceStep(text, st))
    ELSE SliceFellOff(st)

\* the whole function: ok with (src, s, e), or the ValueError raised
slice_brace_block(text, from) ==
    LET brace_open == Find(text, "{", from)
        st == IF brace_open = -1 THEN SliceNoBrace
              ELSE SliceLoop(text, SliceEnter(brace_open))
    IN  IF st.pc = "return"
        THEN [ok |-> TRUE, src |-> Slice(text, from, st.end),
              s |-> from, e |-> st.end, error |-> None]
        ELSE [ok |-> FALSE, src |-> << >>, s |-> -1, e |-> -1,
              error |-> st.pc]

-----------------------------------------------------------------------------
(* Regular-expression classes and matching primitives *)

\* \w, on the ASCII characters
IsWordChar(c) == c \in Lower \cup Upper \cup Digit \cup {"_"}

\* \s, on the ASCII characters a string literal here can hold
IsSpace(c) == c \in {" ", "\t", "\n", "\r", "\f"}

\* the code points 32 .. 126 in order; AsciiTable[k] has code point k + 31
AsciiTable ==
    <<" ", "!", "\"", "#", "$", "%", "&", "'", "(", ")", "*", "+", ",",
      "-", ".", "/", "0", "1", "2", "3", "4", "5", "6", "7", "8", "9", ":",
      ";", "<", "=", ">", "?", "@", "A", "B", "C", "D", "E", "F", "G", "H",
      "I", "J", "K", "L", "M", "N", "O", "P", "Q", "R", "S", "T", "U", "V",
      "W", "X", "Y", "Z", "[", "\\", "]", "^", "_", Backtick, "a", "b",
      "c", "d", "e", "f", "g", "h", "i", "j", "k", "l", "m", "n", "o", "p",
      "q", "r", "s", "t", "u", "v", "w", "x", "y", "z", "{", "|", "}", "~">>

\* ord(c)
Ord(c) == 31 + (CHOOSE k \in 1 .. Len(AsciiTable) : AsciiTable[k] = c)

\* a < b for two strings, as Python compares them
RECURSIVE StrLess(_, _)
StrLess(a, b) ==
    IF b = << >> THEN FALSE
    ELSE IF a = << >> THEN TRUE
    ELSE IF Head(a) = Head(b) THEN StrLess(Tail(a), Tail(b))
    ELSE Ord(Head(a)) < Ord(Head(b))

\* sorted(S) for a set of strings
RECURSIVE Sorted(_)
Sorted(S) ==
    IF S = {} THEN << >>
    ELSE LET least == CHOOSE x \in S : \A y \in S \ {x} : StrLess(x, y)
         IN  <<least>> \o Sorted(S \ {least})

\* the elements of a list, as a set
Elems(list) == {list[k] : k \in 1 .. Len(list)}

\* list[:n]
Take(list, n) == IF Len(list) <= n THEN list ELSE SubSeq(list, 1, n)

\* the literal lit stands at offset pos
MatchLit(text, pos, lit) ==
    /\ pos >= 0
    /\ pos + Len(lit) <= Len(text)
    /\ \A k \in 1 .. Len(lit) : text[pos + k] = lit[k]

\* the offset after the longest run of white space from pos
RECURSIVE SkipSpaces(_, _)
SkipSpaces(text, pos) ==
    IF pos < Len(text) /\ IsSpace(CharAt(text, pos))
    THEN SkipSpaces(text, pos + 1) ELSE pos

\* \b at offset pos: exactly one of the characters around it is a word one
WordBoundary(text, pos) ==
    LET before == pos > 0 /\ pos <= Len(text) /\ IsWordChar(CharAt(text, pos - 1))
        after == pos >= 0 /\ pos < Len(text) /\ IsWordChar(CharAt(text, pos))
    IN  before # after

-----------------------------------------------------------------------------
(* find_function_start *)

\* find_function_start returning None
NotFound == -1

KwFunction == <<"f", "u", "n", "c", "t", "i", "o", "n">>
KwConst == <<"c", "o", "n", "s", "t">>
KwLet == <<"l", "e", "t">>
KwVar == <<"v", "a", "r">>

\* the four patterns  kw\s+NAME\s*term  in the order they are tried
DeclPatterns ==
    <<[kw |-> KwFunction, term |-> "("], [kw |-> KwConst, term |-> "="],
      [kw |-> KwLet, term |-> "="], [kw |-> KwVar, term |-> "="]>>

\* the pattern pat for name matches at offset pos
MatchDecl(text, pos, pat, name) ==
    /\ MatchLit(text, pos, pat.kw)
    /\ LET p1 == pos + Len(pat.kw)
           p2 == SkipSpaces(text, p1)
       IN  /\ p2 > p1
           /\ MatchLit(text, p2, name)
           /\ MatchLit(text, SkipSpaces(text, p2 + Len(name)), <<pat.term>>)

\* re.search(pat, js): the start of the leftmost match, or NotFound
SearchDecl(text, pat, name) ==
    LET hits == {p \in 0 .. (Len(text) - 1) : MatchDecl(text, p, pat, name)}
    IN  IF hits = {} THEN NotFound
        ELSE CHOOSE p \in hits : \A r \in hits : p <= r

\* find_function_start trying the patterns from the k-th on
RECURSIVE FindFrom(_, _, _)
FindFrom(text, name, k) ==
    IF k > Len(DeclPatterns) THEN NotFound
    ELSE LET m == SearchDecl(text, DeclPatterns[k], name)
         IN  IF m # NotFound THEN m ELSE FindFrom(text, name, k + 1)

\* find_function_start returning the leftmost match of any of the patterns
find_function_start_Leftmost(text, name) ==
    LET hits == {SearchDecl(text, DeclPatterns[k], name) :
                   k \in 1 .. Len(DeclPatterns)} \ {NotFound}
    IN  IF hits = {} THEN NotFound
        ELSE CHOOSE p \in hits : \A r \in hits : p <= r


find_function_start(text, name) == FindFrom(text, name, 1)

-----------------------------------------------------------------------------
(* The feature miners *)

\* the offset after the longest run of [\w$] from pos
RECURSIVE SkipIdent(_, _)
SkipIdent(text, pos) ==
    IF pos < Len(text)
       /\ (IsWordChar(CharAt(text, pos)) \/ CharAt(text, pos) = "$")
    THEN SkipIdent(text, pos + 1) ELSE pos

\* lit([_$A-Za-z][\w$]*)\b  with \b before lit, tried at offset pos: the end
\* of the match (the greedy capture backed off to the last word boundary),
\* or -1 when there is none
CallMatchEnd(text, pos, lit) ==
    LET p1 == pos + Len(lit) IN
    IF /\ WordBoundary(text, pos)
       /\ MatchLit(text, pos, lit)
       /\ p1 < Len(text)
       /\ CharAt(text, p1) \in Lower \cup Upper \cup {"_", "$"}
    THEN LET ends == {e \in (p1 + 1) .. SkipIdent(text, p1 + 1) :
                        WordBoundary(text, e)}
         IN  IF ends = {} THEN -1
             ELSE CHOOSE e \in ends : \A f \in ends : f <= e
    ELSE -1

\* re.findall of that pattern from offset pos on: the set of captures of
\* the leftmost match and of the matches that follow its end
RECURSIVE FindCalls(_, _, _)
FindCalls(text, pos, lit) ==
    LET hits == {p \in pos .. (Len(text) - 1) :
                    MatchLit(text, p, lit) /\ CallMatchEnd(text, p, lit) # -1}
    IN  IF hits = {} THEN {}
        ELSE LET p == CHOOSE h \in hits : \A g \in hits : h <= g
                 e == CallMatchEnd(text, p, lit)
             IN  {Slice(text, p + Len(lit), e)} \cup FindCalls(text, e, lit)

LitJsx == <<"h", ".", "j", "s", "x", "(">>
LitJsxs == <<"h", ".", "j", "s", "x", "s", "(">>

\* the tags extract_child_calls drops
Intrinsic ==
    {<<"d", "i", "v">>, <<"s", "p", "a", "n">>, <<"h", "1">>, <<"h", "2">>,
     <<"h", "3">>, <<"p">>, <<"b", "u", "t", "t", "o", "n">>, <<"a">>,
     <<"i", "m", "g">>, <<"s", "v", "g">>, <<"p", "a", "t", "h">>,
     <<"i", "n", "p", "u", "t">>,
     <<"t", "e", "x", "t", "a", "r", "e", "a">>, <<"p", "r", "e">>,
     <<"c", "o", "d", "e">>, <<"s", "e", "c", "t", "i", "o", "n">>,
     <<"h", "e", "a", "d", "e", "r">>, <<"f", "o", "o", "t", "e", "r">>,
     <<"m", "a", "i", "n">>, <<"a", "s", "i", "d", "e">>,
     <<"l", "a", "b", "e", "l">>, <<"u", "l">>, <<"o", "l">>, <<"l", "i">>,
     <<"t", "a", "b", "l", "e">>, <<"t", "h", "e", "a", "d">>,
     <<"t", "b", "o", "d", "y">>, <<"t", "r">>, <<"t", "d">>, <<"t", "h">>,
     <<"f", "o", "r", "m">>}

\* extract_child_calls with the filter of looks_like_app_component's
\* exclusions left as it is in the source: only the intrinsic tags go
extract_child_calls(src) ==
    LET calls == FindCalls(src, 0, LitJsx) \cup FindCalls(src, 0, LitJsxs)
    IN  Sorted({c \in calls : c \notin Intrinsic})

\* lit"([^"]+)"  (with \b before lit when bounded) tried at offset pos: the
\* offset of the closing quote, or -1
QuotedMatchClose(text, pos, lit, bounded) ==
    LET p1 == pos + Len(lit)
        close == Find(text, "\"", p1)
    IN  IF /\ bounded => WordBoundary(text, pos)
           /\ MatchLit(text, pos, lit)
           /\ close > p1
        THEN close ELSE -1

\* re.findall / re.finditer of that pattern from pos on: the captures of the
\* leftmost match and of the matches that follow its end
RECURSIVE FindQuoted(_, _, _, _)
FindQuoted(text, pos, lit, bounded) ==
    LET hits == {p \in pos .. (Len(text) - 1) :
                    MatchLit(text, p, lit)
                      /\ QuotedMatchClose(text, p, lit, bounded) # -1}
    IN  IF hits = {} THEN {}
        ELSE LET p == CHOOSE h \in hits : \A g \in hits : h <= g
                 close == QuotedMatchClose(text, p, lit, bounded)
             IN  {Slice(text, p + Len(lit), close)}
                   \cup FindQuoted(text, close + 1, lit, bounded)

LitId == <<"i", "d", ":", "\"">>
LitClassName == <<"c", "l", "a", "s", "s", "N", "a", "m", "e", ":", "\"">>
LitIe == <<"I", "e", "(", "\"">>

extract_ids(src) == Sorted(FindQuoted(src, 0, LitId, FALSE))

extract_classnames(src) ==
    Sorted(FindQuoted(src, 0, LitClassName, FALSE)
             \cup FindQuoted(src, 0, LitIe, TRUE))

-----------------------------------------------------------------------------
(* looks_like_app_component *)

\* the globals looks_like_app_component rejects
ExcludedGlobals ==
    {<<"M">>, <<"h">>, <<"Z">>, <<"I", "e">>, <<"h", "t">>, <<"C", "r">>, <<"e", "o">>}

MinNameLen == 3
MaxNameLen == 6

looks_like_app_component(name) ==
    IF name \in ExcludedGlobals THEN FALSE
    ELSE IF Len(name) > 0 /\ name[1] = "$" THEN FALSE
    ELSE IF Len(name) < MinNameLen \/ Len(name) > MaxNameLen THEN FALSE
    ELSE IF name[1] \in Digit THEN FALSE
    ELSE TRUE

-----------------------------------------------------------------------------
(* build_component_extractor: the memoising get *)

\* None in an Optional list or tuple field of ComponentInfo; every reader of
\* such a field tests it with  x or []  or  if x
Absent == << >>

\* ComponentInfo(name=name, found=False); the fields hooks and excerpt, which
\* are only copied from record to tree node, are left out of the model
InfoNotFound(name) ==
    [name |-> name, found |-> FALSE, byte_range |-> Absent,
     i18n_ids |-> Absent, classnames |-> Absent, child_calls |-> Absent]

\* ComponentInfo(name=name, found=True, ...) from the sliced block
InfoFound(name, sliced) ==
    [name |-> name, found |-> TRUE, byte_range |-> <<sliced.s, sliced.e>>,
     i18n_ids |-> extract_ids(sliced.src),
     classnames |-> extract_classnames(sliced.src),
     child_calls |-> extract_child_calls(sliced.src)]

\* the record built from the outcome of slice_brace_block
ExtractSliced(name, sliced) ==
    IF ~sliced.ok THEN InfoNotFound(name) ELSE InfoFound(name, sliced)

\* the record built from the outcome of find_function_start
ExtractAt(text, name, at) ==
    IF at = NotFound THEN InfoNotFound(name)
    ELSE ExtractSliced(name, slice_brace_block(text, at))

\* the record get builds on a cache miss
Extract(text, name) == ExtractAt(text, name, find_function_start(text, name))

\* name in cache
CacheHit(c, name) == name \in DOMAIN c

\* CacheStore keeping the last record only
CacheStore_KeepsLast(c, name, info) == [n \in {name} |-> info]

\* CacheStore keeping only the records that were found
CacheStore_OnlyFound(c, name, info) ==
    IF info.found
    THEN [n \in DOMAIN c \cup {name} |-> IF n = name THEN info ELSE c[n]]
    ELSE c

\* cache[name] = info
CacheStore(c, name, info) ==
    [n \in DOMAIN c \cup {name} |-> IF n = name THEN info ELSE c[n]]

\* what get returns: the record, the cache afterwards and the log entry of
\* the call (scanned: the text was searched and sliced for it)
GetResult(c, name, info, scanned) ==
    [info |-> info, cache |-> c,
     log |-> [name |-> name, info |-> info, scanned |-> scanned]]

\* get(name) on a cache miss, info being the record extracted
GetMiss(c, name, info) ==
    GetResult(CacheStore(c, name, info), name, info, TRUE)

\* get(name) on the cache c
get(text, c, name) ==
    IF CacheHit(c, name) THEN GetResult(c, name, c[name], FALSE)
    ELSE GetMiss(c, name, Extract(text, name))

-----------------------------------------------------------------------------
(* Ordered dictionaries: a list of <<key, value>> in insertion order *)

DictKeys(d) == [k \in 1 .. Len(d) |-> d[k][1]]

DictHas(d, key) == \E k \in 1 .. Len(d) : d[k][1] = key

DictGet(d, key) == d[CHOOSE k \in 1 .. Len(d) : d[k][1] = key][2]

\* DictSet with a new key put before the keys already held
DictSet_AtFront(d, key, value) ==
    IF DictHas(d, key)
    THEN [k \in 1 .. Len(d) |-> IF d[k][1] = key THEN <<key, value>> ELSE d[k]]
    ELSE <<<<key, value>>>> \o d

\* d[key] = value: in place for a key already held, at the end for a new one
DictSet(d, key, value) ==
    IF DictHas(d, key)
    THEN [k \in 1 .. Len(d) |-> IF d[k][1] = key THEN <<key, value>> ELSE d[k]]
    ELSE Append(d, <<key, value>>)

-----------------------------------------------------------------------------
(* collect_component_tree *)

\* the defaults of max_depth and max_nodes, and the list caps of a tree node
DefaultMaxDepth == 3
DefaultMaxNodes == 200
NodeListCap == 400

\* TreeContinues with the cap compared by <=
TreeContinues_OffByOne(o, queue, mn) == queue # << >> /\ Len(o) <= mn

\* the loop condition  q and len(out) < max_nodes
TreeContinues(o, queue, mn) == queue # << >> /\ Len(o) < mn

\* the node stored for a found record
TreeNode(info) ==
    [byte_range |-> IF info.byte_range # Absent THEN info.byte_range
                    ELSE Absent,
     i18n_ids |-> info.i18n_ids,
     classnames |-> Take(info.classnames, NodeListCap),
     child_calls |-> Take(info.child_calls, NodeListCap)]

\* AlreadySeen with the visited set never consulted
AlreadySeen_Never(name, visited) == FALSE

\* the test  name in seen  made on a dequeued name
AlreadySeen(name, visited) == name \in visited

\* Implausible with no exemption of the entry
Implausible_NoExemption(name, rootname) == ~looks_like_app_component(name)

\* the test that skips a dequeued name without a lookup
Implausible(name, rootname) ==
    ~looks_like_app_component(name) /\ name # rootname

\* DepthReached with the comparison inverted
DepthReached_Inverted(depth, md) == depth < md

\* DepthReached with > for >=
DepthReached_Late(depth, md) == depth > md

\* the test  depth >= max_depth  that ends a node's expansion
DepthReached(depth, md) == depth >= md

\* Children without the test  if child in seen: continue
RECURSIVE Children_Unchecked(_, _, _)
Children_Unchecked(calls, depth, visited) ==
    IF calls = << >> THEN << >>
    ELSE IF looks_like_app_component(Head(calls))
         THEN <<<<Head(calls), depth + 1>>>>
                \o Children_Unchecked(Tail(calls), depth, visited)
         ELSE Children_Unchecked(Tail(calls), depth, visited)

\* the pairs the for loop appends for the children of a node
RECURSIVE Children(_, _, _)
Children(calls, depth, visited) ==
    IF calls = << >> THEN << >>
    ELSE LET child == Head(calls)
             more == Children(Tail(calls), depth, visited)
         IN  IF child \in visited THEN more
             ELSE IF looks_like_app_component(child)
                  THEN <<<<child, depth + 1>>>> \o more
                  ELSE more

\* TreeVisit without the test  if not info.found: continue
TreeVisit_KeepsUnfound(md, t, name, depth, got) ==
    [t EXCEPT
       !.cache = got.cache,
       !.log = <<got.log>>,
       !.out = DictSet(@, name, TreeNode(got.info)),
       !.q = IF DepthReached(depth, md) THEN @
             ELSE @ \o Children(got.info.child_calls, depth, t.seen)]

\* TreeVisit leaving the loop at a name that is not found
TreeVisit_BreaksOnUnfound(md, t, name, depth, got) ==
    IF ~got.info.found
    THEN [t EXCEPT !.cache = got.cache, !.log = <<got.log>>, !.q = << >>]
    ELSE [t EXCEPT
            !.cache = got.cache,
            !.log = <<got.log>>,
            !.out = DictSet(@, name, TreeNode(got.info)),
            !.q = IF DepthReached(depth, md) THEN @
                  ELSE @ \o Children(got.info.child_calls, depth, t.seen)]

\* the rest of an iteration once get has returned got for the dequeued
\* name: t is the state after the pop and the addition to seen
TreeVisit(md, t, name, depth, got) ==
    IF ~got.info.found
    THEN [t EXCEPT !.cache = got.cache, !.log = <<got.log>>]
    ELSE [t EXCEPT
            !.cache = got.cache,
            !.log = <<got.log>>,
            !.out = DictSet(@, name, TreeNode(got.info)),
            !.q = IF DepthReached(depth, md) THEN @
                  ELSE @ \o Children(got.info.child_calls, depth, t.seen)]

\* an iteration from the test of seen on: t is the state after the pop
TreeDequeued(text, rootname, md, t, name, depth) ==
    IF AlreadySeen(name, t.seen) THEN t
    ELSE IF Implausible(name, rootname)
         THEN [t EXCEPT !.seen = @ \cup {name}]
         ELSE TreeVisit(md, [t EXCEPT !.seen = @ \cup {name}], name, depth,
                        get(text, t.cache, name))

\* TreeStep popping the last pair of the queue, q.pop(), for the first
TreeStep_PopsLast(text, rootname, md, t) ==
    TreeDequeued(text, rootname, md,
                 [out |-> t.out, q |-> SubSeq(t.q, 1, Len(t.q) - 1),
                  seen |-> t.seen, cache |-> t.cache, log |-> << >>],
                 t.q[Len(t.q)][1], t.q[Len(t.q)][2])

\* one iteration of the while loop, on t = [out, q, seen, cache]: the same
\* fields afterwards, with log, the get calls it made
TreeStep(text, rootname, md, t) ==
    TreeDequeued(text, rootname, md,
                 [out |-> t.out, q |-> Tail(t.q), seen |-> t.seen,
                  cache |-> t.cache, log |-> << >>],
                 t.q[1][1], t.q[1][2])

\* the while loop from the state t on, and the dictionary it returns
RECURSIVE TreeLoop(_, _, _, _, _)
TreeLoop(text, rootname, md, mn, t) ==
    IF TreeContinues(t.out, t.q, mn)
    THEN TreeLoop(text, rootname, md, mn, TreeStep(text, rootname, md, t))
    ELSE t.out

\* collect_component_tree(get_info, root, max_depth, max_nodes) with the
\* get of a new extractor of text
collect_component_tree(text, rootname, md, mn) ==
    TreeLoop(text, rootname, md, mn,
             [out |-> << >>, q |-> <<<<rootname, 0>>>>, seen |-> {},
              cache |-> << >>])

-----------------------------------------------------------------------------
(* The names and the source texts the runs are made on *)

nAbc == <<"A", "b", "c">>
nQrs == <<"Q", "r", "s">>
nXy9 == <<"X", "y", "9">>
nTuv == <<"T", "u", "v">>
nA == <<"A">>
nB == <<"B">>
nHt == <<"h", "t">>
nIe == <<"I", "e">>
nDiv == <<"d", "i", "v">>
nLong == <<"A", "b", "c", "d", "e", "f", "g", "h", "i", "j">>
nDollar == <<"$", "a", "b">>
nDigit == <<"9", "a", "b">>
nAb3 == <<"A", "b", "3">>

\* the declared names of the generated texts, in the order of their
\* declarations, and the declaration shape each is written in
Pool == <<nAbc, nQrs, nXy9>>
PoolSet == Elems(Pool)
ShapeOf(name) == IF name = nAbc THEN 1 ELSE IF name = nQrs THEN 2 ELSE 3

\* a call  h.jsx(child);
JsxCall(child) == LitJsx \o child \o <<")", ";">>

RECURSIVE JsxCalls(_)
JsxCalls(kids) ==
    IF kids = << >> THEN << >> ELSE JsxCall(Head(kids)) \o JsxCalls(Tail(kids))

\* a declaration of name, in the k-th shape of DeclPatterns, whose block
\* calls kids
Declaration(k, name, kids) ==
    DeclPatterns[k].kw \o <<" ">> \o name
      \o (IF k = 1 THEN <<"(", ")">> ELSE <<DeclPatterns[k].term>>)
      \o <<"{">> \o JsxCalls(kids) \o <<"}">>

MaxKids == 2

\* what a generated text holds for one name: no declaration, or a
\* declaration calling at most MaxKids names of the pool
DeclChoices ==
    {[declared |-> FALSE, kids |-> {}]} \cup
    {[declared |-> TRUE, kids |-> K] :
        K \in {S \in SUBSET PoolSet : Cardinality(S) <= MaxKids}}

RECURSIVE RenderFrom(_, _)
RenderFrom(g, k) ==
    IF k > Len(Pool) THEN << >>
    ELSE (IF g[Pool[k]].declared
          THEN Declaration(ShapeOf(Pool[k]), Pool[k], Sorted(g[Pool[k]].kids))
          ELSE << >>) \o RenderFrom(g, k + 1)

\* every call graph over the pool, written out as source text
GraphTexts == {RenderFrom(g, 1) : g \in [PoolSet -> DeclChoices]}

\* the cycle A -> B -> A with both declared:
\*   function A(){h.jsx(B)}const B={a:h.jsx(A)}
TextCycleAB ==
    <<"f", "u", "n", "c", "t", "i", "o", "n", " ", "A", "(", ")", "{", "h",
      ".", "j", "s", "x", "(", "B", ")", "}", "c", "o", "n", "s", "t", " ",
      "B", "=", "{", "a", ":", "h", ".", "j", "s", "x", "(", "A", ")",
      "}">>

\* call candidates: an intrinsic tag, a 2-character global, a 10-character
\* name, a $-name and a plausible name, each declared but the tag:
\*   const Abc={a:h.jsxs(div),b:h.jsx(ht),c:h.jsx(Abcdefghij),d:h.jsx($ab),e:h.jsx(Qrs,{id:"a}"})};let ht={};var Abcdefghij={};const $ab={};function Qrs(){}
TextCandidates ==
    <<"c", "o", "n", "s", "t", " ", "A", "b", "c", "=", "{", "a", ":", "h",
      ".", "j", "s", "x", "s", "(", "d", "i", "v", ")", ",", "b", ":", "h",
      ".", "j", "s", "x", "(", "h", "t", ")", ",", "c", ":", "h", ".", "j",
      "s", "x", "(", "A", "b", "c", "d", "e", "f", "g", "h", "i", "j", ")",
      ",", "d", ":", "h", ".", "j", "s", "x", "(", "$", "a", "b", ")", ",",
      "e", ":", "h", ".", "j", "s", "x", "(", "Q", "r", "s", ",", "{", "i",
      "d", ":", "\"", "a", "}", "\"", "}", ")", "}", ";", "l", "e", "t",
      " ", "h", "t", "=", "{", "}", ";", "v", "a", "r", " ", "A", "b", "c",
      "d", "e", "f", "g", "h", "i", "j", "=", "{", "}", ";", "c", "o", "n",
      "s", "t", " ", "$", "a", "b", "=", "{", "}", ";", "f", "u", "n", "c",
      "t", "i", "o", "n", " ", "Q", "r", "s", "(", ")", "{", "}">>

\* a root with three children: one found, one whose block never closes and
\* one with no opening brace after its declaration:
\*   function Abc(){h.jsx(Qrs);h.jsx(Xy9);h.jsx(Tuv)}function Tuv(){h.jsx(Nop,{id:'}'})}let Qrs={h.jsx(Tuv);var Xy9=1;
TextBroken ==
    <<"f", "u", "n", "c", "t", "i", "o", "n", " ", "A", "b", "c", "(", ")",
      "{", "h", ".", "j", "s", "x", "(", "Q", "r", "s", ")", ";", "h", ".",
      "j", "s", "x", "(", "X", "y", "9", ")", ";", "h", ".", "j", "s", "x",
      "(", "T", "u", "v", ")", "}", "f", "u", "n", "c", "t", "i", "o", "n",
      " ", "T", "u", "v", "(", ")", "{", "h", ".", "j", "s", "x", "(", "N",
      "o", "p", ",", "{", "i", "d", ":", "'", "}", "'", "}", ")", "}", "l",
      "e", "t", " ", "Q", "r", "s", "=", "{", "h", ".", "j", "s", "x", "(",
      "T", "u", "v", ")", ";", "v", "a", "r", " ", "X", "y", "9", "=", "1",
      ";">>

\* declared names that fail looks_like_app_component, for use as entries:
\*   const Ie={a:h.jsx(Ie)};let $ab={a:h.jsx(Abc)};var 9ab={};function Abcdefghij(){h.jsx(Ie)}const Abc={a:h.jsx(Ie),b:h.jsx(Abc),c:h.jsx($ab)}
TextOddEntries ==
    <<"c", "o", "n", "s", "t", " ", "I", "e", "=", "{", "a", ":", "h", ".",
      "j", "s", "x", "(", "I", "e", ")", "}", ";", "l", "e", "t", " ", "$",
      "a", "b", "=", "{", "a", ":", "h", ".", "j", "s", "x", "(", "A", "b",
      "c", ")", "}", ";", "v", "a", "r", " ", "9", "a", "b", "=", "{", "}",
      ";", "f", "u", "n", "c", "t", "i", "o", "n", " ", "A", "b", "c", "d",
      "e", "f", "g", "h", "i", "j", "(", ")", "{", "h", ".", "j", "s", "x",
      "(", "I", "e", ")", "}", "c", "o", "n", "s", "t", " ", "A", "b", "c",
      "=", "{", "a", ":", "h", ".", "j", "s", "x", "(", "I", "e", ")", ",",
      "b", ":", "h", ".", "j", "s", "x", "(", "A", "b", "c", ")", ",", "c",
      ":", "h", ".", "j", "s", "x", "(", "$", "a", "b", ")", "}">>

\* four names on three levels, with a shared grandchild and a back edge:
\*   function Abc(){h.jsxs(Qrs);h.jsx(Xy9)}const Qrs ={a:h.jsx(Tuv,{className:"}"})};let Xy9= {a:h.jsx(Tuv),b:h.jsx(Abc)};var Tuv={a:h.jsx(Abc,{id:"t.u"})}
TextDiamond ==
    <<"f", "u", "n", "c", "t", "i", "o", "n", " ", "A", "b", "c", "(", ")",
      "{", "h", ".", "j", "s", "x", "s", "(", "Q", "r", "s", ")", ";", "h",
      ".", "j", "s", "x", "(", "X", "y", "9", ")", "}", "c", "o", "n", "s",
      "t", " ", "Q", "r", "s", " ", "=", "{", "a", ":", "h", ".", "j", "s",
      "x", "(", "T", "u", "v", ",", "{", "c", "l", "a", "s", "s", "N", "a",
      "m", "e", ":", "\"", "}", "\"", "}", ")", "}", ";", "l", "e", "t",
      " ", "X", "y", "9", "=", " ", "{", "a", ":", "h", ".", "j", "s", "x",
      "(", "T", "u", "v", ")", ",", "b", ":", "h", ".", "j", "s", "x", "(",
      "A", "b", "c", ")", "}", ";", "v", "a", "r", " ", "T", "u", "v", "=",
      "{", "a", ":", "h", ".", "j", "s", "x", "(", "A", "b", "c", ",", "{",
      "i", "d", ":", "\"", "t", ".", "u", "\"", "}", ")", "}">>

\* one component with one call and one identifier literal, its callee not
\* declared:
\*   const Xy9={render(){return h.jsx(Ab3,{id:"hello.world"})}}
TextHello ==
    <<"c", "o", "n", "s", "t", " ", "X", "y", "9", "=", "{", "r", "e", "n",
      "d", "e", "r", "(", ")", "{", "r", "e", "t", "u", "r", "n", " ", "h",
      ".", "j", "s", "x", "(", "A", "b", "3", ",", "{", "i", "d", ":", "\"",
      "h", "e", "l", "l", "o", ".", "w", "o", "r", "l", "d", "\"", "}", ")",
      "}", "}">>

\* the identifier literal of TextHello
HelloWorld ==
    <<"h", "e", "l", "l", "o", ".", "w", "o", "r", "l", "d">>

SpecialTexts ==
    {TextCycleAB, TextCandidates, TextBroken, TextOddEntries, TextDiamond}

\* the entries a traversal of a special text starts from
SpecialRoots == {nAbc, nA, nIe, nDollar, nDigit, nLong, nTuv}

\* the entries a traversal of a generated text starts from
GraphRoots == {nAbc}

-----------------------------------------------------------------------------
(* The slicer run step by step on every short text *)

MaxLen == 5
MaxStart == 1
MaxTail == 3

Alphabet == {"{", "}", "\"", "'", Backtick, "\\", "a"}

\* every text over alpha of length at most n
TextsUpTo(alpha, n) == UNION {[1 .. k -> alpha] : k \in 0 .. n}

\* a literal whose content begins with an escape, before a closing brace
EscapeTexts ==
    UNION {{<<"{", qt, "\\">> \o w \o <<"}">> :
               w \in TextsUpTo({qt, "}", "\\"}, MaxTail)} : qt \in Quotes}

SliceIdle ==
    [pc |-> "call", i |-> -1, depth |-> 0,
     in_str |-> None, esc |-> FALSE, end |-> -1]

\* the extractor, the traversal and main before anything has run
RunIdle ==
    /\ cache = << >> /\ gets = << >> /\ pc = "idle"
    /\ root = << >> /\ max_depth = DefaultMaxDepth
    /\ max_nodes = DefaultMaxNodes
    /\ out = << >> /\ q = << >> /\ seen = {} /\ tree_from = 0
    /\ ret = << >> /\ routes = << >> /\ ri = 1 /\ root_info = << >>
    /\ pages = << >> /\ report = << >>

SliceInit ==
    /\ \/ /\ js \in TextsUpTo(Alphabet, MaxLen)
          /\ start \in 0 .. MaxStart
       \/ /\ js \in EscapeTexts
          /\ start = 0
    /\ sl = SliceIdle
    /\ examined = {}
    /\ reads = 0
    /\ RunIdle

\* brace_open = js.find("{", start); raise when it is -1
SliceCall ==
    /\ sl.pc = "call"
    /\ LET brace_open == Find(js, "{", start)
       IN  sl' = IF brace_open = -1 THEN SliceNoBrace
                 ELSE SliceEnter(brace_open)
    /\ UNCHANGED <<js, start, examined, reads, run_vars>>

\* one iteration of the loop
SliceIterate ==
    /\ sl.pc = "loop"
    /\ sl.i < Len(js)
    /\ sl' = SliceStep(js, sl)
    /\ examined' = examined \cup {sl.i}
    /\ reads' = reads + 1
    /\ UNCHANGED <<js, start, run_vars>>

\* the loop condition fails: raise ValueError("unterminated block")
SliceExhausted ==
    /\ sl.pc = "loop"
    /\ sl.i >= Len(js)
    /\ sl' = SliceFellOff(sl)
    /\ UNCHANGED <<js, start, examined, reads, run_vars>>

SliceNext == SliceCall \/ SliceIterate \/ SliceExhausted

SpecSlice == SliceInit /\ [][SliceNext]_vars

FairSpecSlice == SpecSlice /\ WF_vars(SliceNext)

-----------------------------------------------------------------------------
(* collect_component_tree called directly, with any arguments *)

\* the values of max_depth and of max_nodes the calls are made with
DepthArgs == {-1, 0, 1, 5}
NodeArgs == {-1, 0, 1, 2, 10, 100}

SliceUnused ==
    start = 0 /\ sl = SliceIdle /\ examined = {} /\ reads = 0

\* out = {}, q = [(root, 0)], seen = set(), on a new extractor
TreeInit ==
    /\ \/ js \in GraphTexts /\ root \in GraphRoots
       \/ js \in SpecialTexts /\ root \in SpecialRoots
       \/ js = TextHello /\ root = nXy9
    /\ max_depth \in DepthArgs
    /\ max_nodes \in NodeArgs
    /\ SliceUnused
    /\ cache = << >> /\ gets = << >> /\ pc = "tree"
    /\ out = << >> /\ q = <<<<root, 0>>>> /\ seen = {} /\ tree_from = 0
    /\ ret = << >> /\ routes = << >> /\ ri = 1 /\ root_info = << >>
    /\ pages = << >> /\ report = << >>

\* the variables an iteration leaves changed
TreeAssign(t) ==
    /\ out' = t.out
    /\ q' = t.q
    /\ seen' = t.seen
    /\ cache' = t.cache
    /\ gets' = gets \o t.log

\* one iteration of the while loop
TreeIter ==
    /\ pc = "tree"
    /\ TreeContinues(out, q, max_nodes)
    /\ TreeAssign(TreeStep(js, root, max_depth,
                           [out |-> out, q |-> q, seen |-> seen,
                            cache |-> cache]))
    /\ UNCHANGED <<js, slice_vars, pc, root, max_depth, max_nodes, tree_from,
                   ret, main_vars>>

\* the loop condition fails: return out
TreeReturn ==
    /\ pc = "tree"
    /\ ~TreeContinues(out, q, max_nodes)
    /\ ret' = out
    /\ pc' = "returned"
    /\ UNCHANGED <<js, slice_vars, cache, gets, tree_vars, main_vars>>

TreeNext == TreeIter \/ TreeReturn

SpecTree == TreeInit /\ [][TreeNext]_vars

\* the interpreter goes on executing the loop: weak fairness of TreeReturn
\* and of TreeIter, the latter, WF_vars(TreeIter), written out with its
\* guard for ENABLED <<TreeIter>>_vars (an iteration always pops q)
TreeIterEnabled == pc = "tree" /\ TreeContinues(out, q, max_nodes)

FairSpecTree ==
    /\ SpecTree
    /\ WF_vars(TreeReturn)
    /\ <>[]TreeIterEnabled => []<><<TreeIter>>_vars

-----------------------------------------------------------------------------
(* main: one tree per route of the route table, on one extractor *)

MaxRoutes == 2

\* the list cap of an aggregated field of a page
PageListCap == 800

\* the keys of the route tables the runs are made on
RouteLabels == <<"/", "/login", "/skills", "/diff">>

\* ROUTES.items(): every table of at most MaxRoutes routes whose components
\* are drawn from comps
RouteTables(comps) ==
    UNION {{[k \in 1 .. n |-> <<RouteLabels[k], f[k]>>] :
              f \in [1 .. n -> comps]} : n \in 0 .. MaxRoutes}

\* the components the routes of a special text name
SpecialComponents == {nAbc, nA, nIe, nQrs}

\* the components the routes of a generated text name
GraphComponents == {nAbc, nQrs}

\* the page of a route whose component was not found
PageNotFound(comp) == [component |-> comp, found |-> FALSE]

\* sorted({x for c in tree.values() for x in c.get(field, [])})
TreeUnion(tree, field) ==
    Sorted(UNION {Elems(tree[k][2][field]) : k \in 1 .. Len(tree)})

\* PageFound with the lists of the root's record for the unions
PageFound_RootOnly(comp, info, tree) ==
    [component |-> comp, found |-> TRUE,
     byte_range |-> IF info.byte_range # Absent THEN info.byte_range
                    ELSE Absent,
     i18n_ids |-> info.i18n_ids,
     classnames |-> Take(info.classnames, PageListCap),
     child_calls |-> Take(info.child_calls, PageListCap),
     tree |-> tree]

\* the page of a route whose component was found, from its tree
PageFound(comp, info, tree) ==
    [component |-> comp, found |-> TRUE,
     byte_range |-> IF info.byte_range # Absent THEN info.byte_range
                    ELSE Absent,
     i18n_ids |-> TreeUnion(tree, "i18n_ids"),
     classnames |-> Take(TreeUnion(tree, "classnames"), PageListCap),
     child_calls |-> Take(TreeUnion(tree, "child_calls"), PageListCap),
     tree |-> tree]

\* the routes of the report written at the end
Report(pgs) == [routes |-> pgs]

MainInit ==
    /\ \/ js \in GraphTexts /\ routes \in RouteTables(GraphComponents)
       \/ js \in SpecialTexts /\ routes \in RouteTables(SpecialComponents)
    /\ SliceUnused
    /\ cache = << >> /\ gets = << >> /\ pc = "main"
    /\ root = << >> /\ max_depth = DefaultMaxDepth
    /\ max_nodes = DefaultMaxNodes
    /\ out = << >> /\ q = << >> /\ seen = {} /\ tree_from = 0
    /\ ret = << >> /\ ri = 1 /\ root_info = << >>
    /\ pages = << >> /\ report = << >>

\* MainAfterGet leaving a route whose component is not found out of pages
MainAfterGet_SkipsUnfound(route, comp, got) ==
    /\ cache' = got.cache
    /\ gets' = Append(gets, got.log)
    /\ root_info' = got.info
    /\ IF ~got.info.found
       THEN /\ ri' = ri + 1
            /\ UNCHANGED <<pc, tree_vars, pages>>
       ELSE /\ pc' = "tree"
            /\ root' = comp
            /\ max_depth' = 3
            /\ max_nodes' = DefaultMaxNodes
            /\ out' = << >>
            /\ q' = <<<<comp, 0>>>>
            /\ seen' = {}
            /\ tree_from' = Len(gets) + 1
            /\ UNCHANGED <<pages, ri>>

\* the body of the for loop up to the call of collect_component_tree, got
\* being what get_info(comp) returned
MainAfterGet(route, comp, got) ==
    /\ cache' = got.cache
    /\ gets' = Append(gets, got.log)
    /\ root_info' = got.info
    /\ IF ~got.info.found
       THEN /\ pages' = DictSet(pages, route, PageNotFound(comp))
            /\ ri' = ri + 1
            /\ UNCHANGED <<pc, tree_vars>>
       ELSE /\ pc' = "tree"
            /\ root' = comp
            /\ max_depth' = 3
            /\ max_nodes' = DefaultMaxNodes
            /\ out' = << >>
            /\ q' = <<<<comp, 0>>>>
            /\ seen' = {}
            /\ tree_from' = Len(gets) + 1
            /\ UNCHANGED <<pages, ri>>

\* root_info = get_info(comp), then the not-found page or the tree call
MainEntry ==
    /\ pc = "main"
    /\ ri <= Len(routes)
    /\ MainAfterGet(routes[ri][1], routes[ri][2],
                    get(js, cache, routes[ri][2]))
    /\ UNCHANGED <<js, slice_vars, ret, routes, report>>

\* the tree call returns: the page of the route is built from the tree
MainAggregate ==
    /\ pc = "tree"
    /\ ~TreeContinues(out, q, max_nodes)
    /\ pages' = DictSet(pages, routes[ri][1],
                        PageFound(routes[ri][2], root_info, out))
    /\ ri' = ri + 1
    /\ pc' = "main"
    /\ UNCHANGED <<js, slice_vars, cache, gets, tree_vars, ret, routes,
                   root_info, report>>

\* the for loop is over: the report is written
MainFinish ==
    /\ pc = "main"
    /\ ri > Len(routes)
    /\ report' = Report(pages)
    /\ pc' = "done"
    /\ UNCHANGED <<js, slice_vars, cache, gets, tree_vars, ret, routes, ri,
                   root_info, pages>>

Next == MainEntry \/ TreeIter \/ MainAggregate \/ MainFinish

Spec == MainInit /\ [][Next]_vars

\* weak fairness of every step of main; for MainEntry and TreeIter it is
\* written out with the guard for ENABLED (MainEntry always adds to gets)
MainEntryEnabled == pc = "main" /\ ri <= Len(routes)

FairSpec ==
    /\ Spec
    /\ WF_vars(MainAggregate)
    /\ WF_vars(MainFinish)
    /\ <>[]MainEntryEnabled => []<><<MainEntry>>_vars
    /\ <>[]TreeIterEnabled => []<><<TreeIter>>_vars

-----------------------------------------------------------------------------
(* Reference: the quote-aware depth of a text, by its definition *)

\* the lexical state after the characters at offsets open .. k-1
RECURSIVE RefScan(_, _, _)
RefScan(text, open, k) ==
    IF k <= open THEN [depth |-> 0, quote |-> None, escaped |-> FALSE]
    ELSE LET p == RefScan(text, open, k - 1)
             ch == CharAt(text, k - 1)
         IN  CASE p.quote # None /\ p.escaped -> [p EXCEPT !.escaped = FALSE]
               [] p.quote # None /\ ~p.escaped /\ ch = "\\" ->
                    [p EXCEPT !.escaped = TRUE]
               [] p.quote # None /\ ~p.escaped /\ ch = p.quote ->
                    [p EXCEPT !.quote = None]
               [] p.quote # None /\ ~p.escaped /\ ch # "\\" /\ ch # p.quote -> p
               [] p.quote = None /\ ch \in Quotes -> [p EXCEPT !.quote = ch]
               [] p.quote = None /\ ch = "{" -> [p EXCEPT !.depth = @ + 1]
               [] p.quote = None /\ ch = "}" -> [p EXCEPT !.depth = @ - 1]
               [] OTHER -> p

\* the quote-aware depth once the character at offset k is counted
QDepth(text, open, k) == RefScan(text, open, k + 1).depth

\* offset k lies inside a quoted literal (or is its closing quote)
InLiteral(text, open, k) == RefScan(text, open, k).quote # None

\* offset k holds a brace that the quote-aware count counts
CountedBrace(text, open, k, b) ==
    CharAt(text, k) = b /\ ~InLiteral(text, open, k)

SliceFinal == sl.pc \in {"return", "no_brace", "unterminated"}

-----------------------------------------------------------------------------
(* find_function_start on texts made of declarations and near misses *)

\* the number of pieces a text is made of, at most
MaxDecls == 3

\* the names looked for
LocateNames == {nAbc, nQrs}

\* the pieces: the four shapes for Abc, with one or two blanks; near misses
\* (no blank after the keyword, a longer name, no = sign); a function Qrs
LocatePieces ==
    {KwFunction \o <<" ">> \o nAbc \o <<"(", ")", "{", "}">>,
     KwConst \o <<" ">> \o nAbc \o <<"=", "1", ";">>,
     KwLet \o <<" ", " ">> \o nAbc \o <<" ", "=", "1", ";">>,
     KwVar \o <<" ">> \o nAbc \o <<"=", "1", ";">>,
     KwConst \o nAbc \o <<"=", "1", ";">>,
     KwFunction \o <<" ">> \o nAbc \o <<"d", "(", ")", "{", "}">>,
     KwLet \o <<" ">> \o nAbc \o <<";">>,
     KwFunction \o <<" ">> \o nQrs \o <<" ", "(", ")", "{", "}">>}

\* the texts of at most n pieces
RECURSIVE LocateTexts(_)
LocateTexts(n) ==
    IF n = 0 THEN {<< >>}
    ELSE LocateTexts(n - 1)
           \cup {t \o p : t \in LocateTexts(n - 1), p \in LocatePieces}

\* before  start = find_function_start(js, name)  in get, for the name root
LocateInit ==
    /\ js \in LocateTexts(MaxDecls)
    /\ root \in LocateNames
    /\ SliceUnused
    /\ cache = << >> /\ gets = << >> /\ pc = "locate"
    /\ max_depth = DefaultMaxDepth /\ max_nodes = DefaultMaxNodes
    /\ out = << >> /\ q = << >> /\ seen = {} /\ tree_from = 0
    /\ ret = << >> /\ routes = << >> /\ ri = 1 /\ root_info = << >>
    /\ pages = << >> /\ report = << >>

\* start = find_function_start(js, name)
Locate ==
    /\ pc = "locate"
    /\ start' = find_function_start(js, root)
    /\ pc' = "located"
    /\ UNCHANGED <<js, sl, examined, reads, cache, gets, tree_vars, ret,
                   main_vars>>

SpecLocate == LocateInit /\ [][Locate]_vars

-----------------------------------------------------------------------------
(* C1 - C3: the slicer *)

\* C1: when slice_brace_block succeeds it returns (js[start:end], start, end)
\* with start < end, end - 1 the offset of a counted closing brace at which
\* the quote-aware depth, counted from the first '{' at or after start, is
\* zero, and the depth is zero at no earlier offset from that '{' on.
C1_RangeIsFirstZeroDepth ==
    sl.pc = "return" =>
        LET open == Find(js, "{", start) IN
        /\ open >= start
        /\ start < sl.end
        /\ CountedBrace(js, open, sl.end - 1, "}")
        /\ QDepth(js, open, sl.end - 1) = 0
        /\ \A k \in open .. (sl.end - 2) : QDepth(js, open, k) # 0
        /\ slice_brace_block(js, start) =
              [ok |-> TRUE, src |-> Slice(js, start, sl.end),
               s |-> start, e |-> sl.end, error |-> None]
        /\ Slice(js, start, sl.end) = SubSeq(js, start + 1, sl.end)

\* a slice that succeeded over a '}' held in a back-tick literal
C1_Witness ==
    /\ sl.pc = "return"
    /\ sl.end - start > 4
    /\ RefScan(js, Find(js, "{", start), sl.end - 2).quote = Backtick
    /\ \E k \in 0 .. (sl.end - 2) :
          CharAt(js, k) = "}" /\ InLiteral(js, Find(js, "{", start), k)

\* what one loop iteration does to a character inside a literal
EscapeStep ==
    (sl.pc = "loop" /\ sl.i < Len(js) /\ sl.in_str # None) =>
        LET ch == CharAt(js, sl.i) IN
        /\ sl'.pc = "loop" /\ sl'.i = sl.i + 1 /\ sl'.depth = sl.depth
        /\ sl.esc => (sl'.in_str = sl.in_str /\ ~sl'.esc)
        /\ (~sl.esc /\ ch = "\\") => (sl'.in_str = sl.in_str /\ sl'.esc)
        /\ (~sl.esc /\ ch # "\\") =>
              (~sl'.esc /\ sl'.in_str = IF ch = sl.in_str THEN None
                                        ELSE sl.in_str)

\* C2: inside a literal the character after a backslash is content and never
\* closes the literal, the escape flag lasts for that one character only, and
\* no '}' inside a literal lowers the depth or ends the block: the block ends
\* at a closing brace outside every literal.
C2_EscapedCharIsContent ==
    /\ [][EscapeStep]_vars
    /\ [](sl.pc = "return" =>
            /\ ~InLiteral(js, Find(js, "{", start), sl.end - 1)
            /\ \A k \in 0 .. (sl.end - 2) :
                 (k > 1 /\ CharAt(js, k) = "}" /\ CharAt(js, k - 1) \in Quotes
                    /\ CharAt(js, k - 2) = "\\"
                    /\ InLiteral(js, Find(js, "{", start), k))
                 => QDepth(js, Find(js, "{", start), k) > 0)

\* a block returned whole although a literal in it holds an escaped quote
\* followed by '}'
C2_Witness ==
    /\ sl.pc = "return"
    /\ sl.end = Len(js)
    /\ \E k \in 2 .. (sl.end - 2) :
          /\ CharAt(js, k) = "}"
          /\ CharAt(js, k - 1) = CharAt(js, 1)
          /\ CharAt(js, k - 1) \in Quotes
          /\ CharAt(js, k - 2) = "\\"
          /\ RefScan(js, 0, k - 1).escaped
          /\ InLiteral(js, 0, k)

\* what holds at every point of a scan
SliceOutcome ==
    /\ reads = Cardinality(examined)
    /\ reads <= Len(js)
    /\ sl.pc \in {"call", "loop", "return", "no_brace", "unterminated"}
    /\ sl.pc = "no_brace" =>
          \A k \in start .. (Len(js) - 1) : CharAt(js, k) # "{"
    /\ sl.pc \in {"loop", "return", "unterminated"} =>
          \E k \in start .. (Len(js) - 1) : CharAt(js, k) = "{"
    /\ sl.pc = "unterminated" =>
          sl.i = Len(js) /\ (sl.depth > 0 \/ sl.in_str # None)
    /\ (sl.pc = "loop" /\ sl.i >= Len(js)) =>
          (sl.depth > 0 \/ sl.in_str # None)
    /\ sl.pc = "return" => (sl.depth = 0 /\ sl.in_str = None)

\* C3: slice_brace_block ends, after reading no character twice, in a range,
\* in the no-opening-brace failure (exactly when no '{' lies at or after
\* start) or in the unterminated failure (exactly when the text ends with the
\* depth positive or inside a literal).
C3_Total == []SliceOutcome /\ <>SliceFinal

\* each of the three outcomes, the failures after a scan
C3_Witness ==
    /\ sl.pc = "unterminated"
    /\ sl.in_str # None
    /\ reads = Len(js) - start - 1
    /\ reads > 2

-----------------------------------------------------------------------------
(* C4 - C10: the extractor, the tree and the pages *)

\* the get calls of the traversal under way (or of the last one)
Lookups == SubSeq(gets, tree_from + 1, Len(gets))

\* a declaration of name stands at offset at
DeclaredAt(text, name, at) ==
    \E k \in 1 .. Len(DeclPatterns) : MatchDecl(text, at, DeclPatterns[k], name)

\* C4: over all get calls of a run, from main and from the tree of every
\* route, a name is searched and sliced on its first call only, found or not;
\* every later call returns the record of the first, and the cache holds it.
C4_GetMemoised ==
    \A j \in 1 .. Len(gets) :
        /\ gets[j].name \in DOMAIN cache
        /\ cache[gets[j].name] = gets[j].info
        /\ gets[j].scanned = (\A i \in 1 .. (j - 1) : gets[i].name # gets[j].name)
        /\ \A i \in 1 .. (j - 1) :
             gets[i].name = gets[j].name => gets[j].info = gets[i].info

\* a run in which a found name was asked for three times and a name that was
\* not found twice
C4_Witness ==
    /\ pc = "done"
    /\ \E i, j, k \in 1 .. Len(gets) :
         /\ i < j /\ j < k /\ gets[i].info.found
         /\ gets[i].name = gets[j].name /\ gets[j].name = gets[k].name
    /\ \E i, j \in 1 .. Len(gets) :
         i < j /\ ~gets[i].info.found /\ gets[i].name = gets[j].name

\* no name is looked up twice in one traversal, and no key is held twice
LookedUpOnce ==
    /\ \A i, j \in 1 .. Len(Lookups) :
         Lookups[i].name = Lookups[j].name => i = j
    /\ \A i, j \in 1 .. Len(out) : out[i][1] = out[j][1] => i = j

\* C5: collect_component_tree returns for every call graph, cyclic ones and
\* self-references included, and every max_depth and max_nodes: no name is
\* looked up or expanded twice, and the loop ends with the queue empty or the
\* node cap reached.
C5_Terminates ==
    /\ []LookedUpOnce
    /\ <>(pc = "returned" /\ ret = out
            /\ (q = << >> \/ Len(out) >= max_nodes))

\* a traversal that returned from a graph in which a node calls itself and
\* two nodes call each other
C5_Witness ==
    /\ pc = "returned"
    /\ Len(ret) = 3
    /\ ret[1][1] \in Elems(ret[1][2].child_calls)
    /\ ret[2][1] \in Elems(ret[1][2].child_calls)
    /\ ret[1][1] \in Elems(ret[2][2].child_calls)

\* the text declares rootname and other, the block of each calling the other
\* and nothing else
TwoCycle(text, rootname, other) ==
    /\ other # rootname
    /\ Extract(text, rootname).found
    /\ Extract(text, rootname).child_calls = <<other>>
    /\ Extract(text, other).found
    /\ Extract(text, other).child_calls = <<rootname>>

\* the other name of a two-cycle through the root of a returned traversal
CycleMates ==
    IF pc = "returned" /\ max_depth = 5 /\ max_nodes = 100 /\ Len(ret) > 0
       /\ Len(ret[1][2].child_calls) = 1
    THEN {b \in Elems(ret[1][2].child_calls) : TwoCycle(js, root, b)}
    ELSE {}

\* C6 as stated: on a cycle A -> B -> A with both declared, the tree from
\* A with max_depth 5 and max_nodes 100 has exactly the keys A and B.
C6_CycleGivesBoth ==
    \A b \in CycleMates : DictKeys(ret) = <<root, b>>

\* C6 amended: the same, for a B that passes looks_like_app_component.
C6_CycleGivesBothPlausible ==
    \A b \in CycleMates :
        looks_like_app_component(b) => DictKeys(ret) = <<root, b>>

\* a tree of exactly the two names of a cycle
C6_Witness ==
    \E b \in CycleMates :
        looks_like_app_component(b) /\ DictKeys(ret) = <<root, b>>

\* once the tree holds max_nodes entries the next step returns it, with no
\* further lookup
CapStops ==
    (pc = "tree" /\ max_nodes >= 1 /\ Len(out) >= max_nodes) =>
        (pc' = "returned" /\ ret' = out /\ gets' = gets /\ cache' = cache)

\* C7: for max_nodes >= 1 the tree never holds more than max_nodes entries,
\* and the traversal stops as soon as it holds that many, whatever is still
\* queued; with max_nodes = 1 the tree has at most one node.
C7_NodeCap ==
    /\ [](max_nodes >= 1 => Len(out) <= max_nodes /\ Len(ret) <= max_nodes)
    /\ [][CapStops]_vars

\* a tree cut at one node with two names still queued and never looked up
C7_Witness ==
    /\ pc = "returned"
    /\ max_nodes = 1
    /\ Len(ret) = 1
    /\ Len(q) >= 2
    /\ Len(gets) = 1

\* C8 as stated: the call targets of every record and of every tree node
\* pass looks_like_app_component.
C8_CallTargetsPlausible ==
    /\ \A n \in DOMAIN cache :
         \A c \in Elems(cache[n].child_calls) : looks_like_app_component(c)
    /\ \A k \in 1 .. Len(out) :
         \A c \in Elems(out[k][2].child_calls) : looks_like_app_component(c)

\* C9 as stated: every key of the tree passes looks_like_app_component and
\* was located and sliced; a name whose lookup failed is no key and is not
\* looked up again.
C9_KeysPlausibleAndFound ==
    /\ \A k \in 1 .. Len(out) :
         /\ looks_like_app_component(out[k][1])
         /\ out[k][1] \in DOMAIN cache
         /\ cache[out[k][1]].found
    /\ \A i \in 1 .. Len(Lookups) :
         ~Lookups[i].info.found =>
            /\ ~DictHas(out, Lookups[i].name)
            /\ \A j \in 1 .. Len(Lookups) :
                 Lookups[j].name = Lookups[i].name => j = i

\* C9 amended: every key of the tree other than the entry passes
\* looks_like_app_component; every key, the entry included, was located and
\* sliced; a name whose lookup failed is no key and is not looked up again.
C9_KeysFoundAndPlausibleButEntry ==
    /\ \A k \in 1 .. Len(out) :
         /\ out[k][1] = root \/ looks_like_app_component(out[k][1])
         /\ out[k][1] \in DOMAIN cache
         /\ cache[out[k][1]].found
         /\ out[k][2] = TreeNode(cache[out[k][1]])
         /\ Len(out[k][2].byte_range) = 2
         /\ out[k][2].byte_range[1] < out[k][2].byte_range[2]
         /\ DeclaredAt(js, out[k][1], out[k][2].byte_range[1])
         /\ CharAt(js, out[k][2].byte_range[2] - 1) = "}"
    /\ \A i \in 1 .. Len(Lookups) :
         ~Lookups[i].info.found =>
            /\ ~DictHas(out, Lookups[i].name)
            /\ \A j \in 1 .. Len(Lookups) :
                 Lookups[j].name = Lookups[i].name => j = i

\* a tree of two keys returned after three lookups that failed: a block that
\* never closes, a declaration with no brace after it, a name not declared
C9_Witness ==
    /\ pc = "returned"
    /\ Len(ret) = 2
    /\ Cardinality({i \in 1 .. Len(Lookups) : ~Lookups[i].info.found}) = 3

\* the component of a route can be located: declared, and its block sliced
Locatable(comp) == Extract(js, comp).found

\* the labels of the route table, in order
RouteKeys == [k \in 1 .. Len(routes) |-> routes[k][1]]

\* C10 as stated: after the run every label of the route table is in the
\* report, and a route whose component cannot be located is recorded with
\* found = false and an empty tree.
C10_UnfoundHasEmptyTree ==
    pc = "done" =>
        /\ DictKeys(report.routes) = RouteKeys
        /\ \A k \in 1 .. Len(routes) :
             ~Locatable(routes[k][2]) =>
                /\ ~report.routes[k][2].found
                /\ "tree" \in DOMAIN report.routes[k][2]
                /\ report.routes[k][2].tree = << >>

\* C10 amended: after the run every label of the route table is in the
\* report, and a route whose component cannot be located is recorded with
\* found = false and with no tree at all: its record holds the component
\* name and found only.
C10_UnfoundIsRecorded ==
    pc = "done" =>
        /\ DictKeys(report.routes) = RouteKeys
        /\ \A k \in 1 .. Len(routes) :
             /\ report.routes[k][2].component = routes[k][2]
             /\ report.routes[k][2].found = Locatable(routes[k][2])
             /\ ~Locatable(routes[k][2]) =>
                  report.routes[k][2] =
                     [component |-> routes[k][2], found |-> FALSE]

\* a report of two routes, the first with a block that never closes, the
\* second found
C10_Witness ==
    /\ pc = "done"
    /\ Len(report.routes) = 2
    /\ find_function_start(js, routes[1][2]) # NotFound
    /\ ~report.routes[1][2].found
    /\ report.routes[2][2].found

-----------------------------------------------------------------------------
(* C11 - C20 *)

\* C11 as stated: a tree build asked for with max_nodes <= 0 is reported as
\* a configuration error and returns no tree.
C11_NonPositiveCapIsError ==
    max_nodes <= 0 => pc # "returned"

\* this step made exactly one get call, and it failed
FailedLookup ==
    /\ Len(gets') = Len(gets) + 1
    /\ ~gets'[Len(gets')].info.found

\* a failed lookup of a dequeued name drops the name and nothing else; a
\* failed lookup of the component of a route stores its page and goes on to
\* the next route
FailureIsLocal ==
    FailedLookup =>
        /\ gets'[Len(gets')].info = InfoNotFound(gets'[Len(gets')].name)
        /\ cache'[gets'[Len(gets')].name] = gets'[Len(gets')].info
        /\ pc = "tree" =>
              /\ gets'[Len(gets')].name = q[1][1]
              /\ pc' = "tree" /\ out' = out /\ q' = Tail(q)
              /\ pages' = pages /\ ri' = ri
        /\ pc = "main" =>
              /\ gets'[Len(gets')].name = routes[ri][2]
              /\ pc' = "main" /\ ri' = ri + 1
              /\ pages' = DictSet(pages, routes[ri][1],
                                  [component |-> routes[ri][2],
                                   found |-> FALSE])

\* the way the lookup of name fails on the text: no declaration, no opening
\* brace after it, a block that never closes; "none" when it does not fail
FailureKind(text, name) ==
    IF find_function_start(text, name) = NotFound THEN "NameNotFound"
    ELSE IF Find(text, "{", find_function_start(text, name)) = -1
         THEN "NoOpeningDelimiter"
         ELSE IF ~slice_brace_block(text, find_function_start(text, name)).ok
              THEN "UnterminatedBlock"
              ELSE "none"

\* C12: a lookup that fails (no declaration, no opening brace, unterminated
\* block) yields a record with found = false and stops nothing: in a tree the
\* name gets no node and no children are enqueued, the loop goes on with the
\* rest of the queue; in main the route gets its page and the loop goes on
\* with the next route; every run ends with a page for every route.
C12_FailureDoesNotPropagate ==
    /\ [][FailureIsLocal]_vars
    /\ [](\A i \in 1 .. Len(gets) :
            ~gets[i].info.found => /\ ~DictHas(out, gets[i].name)
                                   /\ ~cache[gets[i].name].found)
    /\ <>(pc = "done" /\ DictKeys(report.routes) = RouteKeys)

\* a finished run of two routes in which lookups failed in the three ways,
\* a name was found after a failure in the same tree, and the second route
\* was handled after the failures of the first
C12_Witness ==
    /\ pc = "done"
    /\ Len(report.routes) = 2
    /\ report.routes[1][2].found
    /\ Cardinality({gets[i].name : i \in {j \in 1 .. Len(gets) :
                                            ~gets[j].info.found}}) >= 3
    /\ \E i, j \in 1 .. Len(gets) :
         i < j /\ ~gets[i].info.found /\ gets[j].info.found /\ gets[j].scanned
    /\ {FailureKind(js, gets[i].name) : i \in 1 .. Len(gets)} =
          {"none", "NameNotFound", "NoOpeningDelimiter", "UnterminatedBlock"}

\* the page main builds from the tree of a route (lines 328-339), for the
\* tree returned for root, and the report of the one route labelled root
RootPage == PageFound(root, cache[root], ret)
RootReport == Report(DictSet(<< >>, "root", RootPage))

\* C13: on TextHello with the entry Xy9, max_depth 1 and max_nodes 10, the
\* block of Xy9 is located at offset 0 and sliced to the end of the text;
\* the report has the one entry root, found, its identifier literals holding
\* hello.world and its call targets Ab3; Ab3 is not declared, its lookup
\* fails and the tree holds Xy9 only.
C13_HelloWorld ==
    (pc = "returned" /\ js = TextHello /\ root = nXy9
       /\ max_depth = 1 /\ max_nodes = 10) =>
        /\ find_function_start(js, nXy9) = 0
        /\ slice_brace_block(js, 0) =
              [ok |-> TRUE, src |-> js, s |-> 0, e |-> Len(js),
               error |-> slice_brace_block(js, 0).error]
        /\ cache[nXy9].found
        /\ cache[nXy9].byte_range = <<0, Len(js)>>
        /\ find_function_start(js, nAb3) = NotFound
        /\ [i \in 1 .. Len(Lookups) |-> Lookups[i].name] = <<nXy9, nAb3>>
        /\ ~Lookups[2].info.found
        /\ DictKeys(ret) = <<nXy9>>
        /\ HelloWorld \in Elems(ret[1][2].i18n_ids)
        /\ nAb3 \in Elems(ret[1][2].child_calls)
        /\ DictKeys(RootReport.routes) = <<"root">>
        /\ RootPage.found
        /\ RootPage.byte_range = <<0, Len(js)>>
        /\ HelloWorld \in Elems(RootPage.i18n_ids)
        /\ nAb3 \in Elems(RootPage.child_calls)
        /\ DictKeys(RootPage.tree) = <<nXy9>>

\* the traversal of TextHello from Xy9 with max_depth 1 and max_nodes 10
\* has returned
C13_Witness ==
    /\ pc = "returned" /\ js = TextHello /\ root = nXy9
    /\ max_depth = 1 /\ max_nodes = 10
    /\ Len(gets) = 2

\* the k-th declaration shape of the name root matches at offset p of js
ShapeAt(k, p) == MatchDecl(js, p, DeclPatterns[k], root)

\* the offsets of js and the shapes in the order of their priority:
\* function, const, let, var
Offsets == 0 .. (Len(js) - 1)
Shapes == 1 .. Len(DeclPatterns)

\* C14: find_function_start returns nothing exactly when no shape of the
\* name matches at any offset; otherwise its result is the leftmost match of
\* the first shape, in the order function, const, let, var, that matches
\* anywhere, wherever the later shapes match.
C14_FirstShapeLeftmost ==
    pc = "located" =>
        /\ (start = NotFound) <=>
              (\A k \in Shapes : \A p \in Offsets : ~ShapeAt(k, p))
        /\ start # NotFound =>
              \E k \in Shapes :
                 /\ start \in Offsets
                 /\ ShapeAt(k, start)
                 /\ \A p \in Offsets : p < start => ~ShapeAt(k, p)
                 /\ \A h \in Shapes : \A p \in Offsets :
                       h < k => ~ShapeAt(h, p)

\* a name located at a match of one shape though a shape of lower priority
\* matches at an earlier offset and the same shape matches again later
C14_Witness ==
    /\ pc = "located"
    /\ start # NotFound
    /\ \E k, h \in Shapes : \E p, r \in Offsets :
          /\ ShapeAt(k, start) /\ h > k /\ p < start /\ ShapeAt(h, p)
          /\ r > start /\ ShapeAt(k, r)

\* a step that changes the queue pops its head and appends pairs only when
\* the depth of the head is less than max_depth, each at that depth + 1
EnqueueRule ==
    q' # q =>
        /\ Len(q') >= Len(q) - 1
        /\ SubSeq(q', 1, Len(q) - 1) = Tail(q)
        /\ Len(q') >= Len(q) =>
              /\ q[1][2] < max_depth
              /\ \A i \in Len(q) .. Len(q') : q'[i][2] = q[1][2] + 1

\* a step that changes the tree adds one node, for the head of the queue,
\* whose depth, the depth of the node, is at most bound
InsertRule(bound) ==
    out' # out =>
        /\ Len(out') = Len(out) + 1
        /\ SubSeq(out', 1, Len(out)) = out
        /\ out'[Len(out')][1] = q[1][1]
        /\ q[1][2] <= bound

\* with max_depth = 0 the tree holds the entry at most
OnlyEntryAtDepthZero ==
    max_depth = 0 => DictKeys(out) \in {<< >>, <<root>>}

\* C15 as stated: the call targets of a dequeued node are enqueued, at
\* depth + 1, only when its depth is less than max_depth; every queued pair
\* and every tree node has depth <= max_depth; with max_depth = 0 the tree
\* holds the entry at most.
C15_DepthAtMostMaxDepth ==
    /\ [][EnqueueRule /\ InsertRule(max_depth)]_vars
    /\ [](\A i \in 1 .. Len(q) : q[i][2] <= max_depth)
    /\ []OnlyEntryAtDepthZero

\* the entry is queued at depth 0 whatever max_depth is
DepthBound == IF max_depth > 0 THEN max_depth ELSE 0

\* C15 amended: the same, with the depth of every queued pair and of every
\* tree node at most max_depth when max_depth >= 0, and 0, the depth of the
\* entry, when max_depth < 0.
C15_DepthAtMostBound ==
    /\ [][EnqueueRule /\ InsertRule(DepthBound)]_vars
    /\ [](\A i \in 1 .. Len(q) : q[i][2] \in 0 .. DepthBound)
    /\ []OnlyEntryAtDepthZero

\* a tree of max_depth 1 whose second node, at depth 1, has a declared and
\* plausible call target that was never looked up
C15_Witness ==
    /\ pc = "returned"
    /\ max_depth = 1 /\ max_nodes = 100
    /\ Len(ret) >= 2
    /\ \E c \in Elems(ret[2][2].child_calls) :
          /\ looks_like_app_component(c)
          /\ \A i \in 1 .. Len(gets) : gets[i].name # c
          /\ find_function_start(js, c) # NotFound

\* no name stands twice in the queue
QueueHasNoDuplicates ==
    \A i, j \in 1 .. Len(q) : q[i][1] = q[j][1] => i = j

\* no pair a step appends names a visited name, the name just dequeued
\* included, and no two of them name the same name
NoVisitedEnqueued ==
    q' # q =>
        \A i \in Len(q) .. Len(q') :
            /\ q'[i][1] \notin seen'
            /\ q'[i][1] # q[1][1]
            /\ \A j \in Len(q) .. Len(q') : q'[i][1] = q'[j][1] => i = j

\* a dequeued name that was visited before is dropped: no lookup, no node,
\* nothing enqueued
DuplicateSkipped ==
    (pc = "tree" /\ q' # q /\ q[1][1] \in seen) =>
        /\ q' = Tail(q)
        /\ gets' = gets /\ cache' = cache /\ out' = out /\ seen' = seen

\* C16 as stated: the test of the visited set before enqueueing keeps
\* duplicates out of the queue: no name is ever in the queue twice, and no
\* visited name is enqueued.
C16_NoDuplicatesInQueue ==
    /\ []QueueHasNoDuplicates
    /\ [][NoVisitedEnqueued]_vars

\* C16 amended: the test of the visited set before enqueueing keeps visited
\* names out of the queue: no visited name is enqueued, and one node does not
\* enqueue a name twice. A name not yet visited can be in the queue more
\* than once, enqueued by several nodes; once it has been dequeued, each
\* further occurrence is dropped when dequeued, without a lookup.
C16_NoVisitedInQueueAtEnqueue ==
    [][NoVisitedEnqueued /\ DuplicateSkipped]_vars

\* the second occurrence of a name is at the head of the queue, the name
\* being a key of the tree already
C16_Witness ==
    /\ pc = "tree"
    /\ q # << >>
    /\ q[1][1] \in seen
    /\ DictHas(out, q[1][1])
    /\ TreeContinues(out, q, max_nodes)

\* the entry is a key of the tree exactly when it was found, and then it is
\* the first key and no other key
EntryInsertedOnce ==
    (pc = "returned" /\ max_nodes >= 1) =>
        /\ root \in DOMAIN cache
        /\ cache[root].found =>
              /\ ret # << >> /\ ret[1][1] = root
              /\ Cardinality({k \in 1 .. Len(ret) : ret[k][1] = root}) = 1
        /\ ~cache[root].found => ret = << >>

\* the only name looked up though it fails the predicate is the entry, once
OnlyEntryExempt ==
    /\ \A i \in 1 .. Len(Lookups) :
          Lookups[i].name = root \/ looks_like_app_component(Lookups[i].name)
    /\ Cardinality({i \in 1 .. Len(Lookups) : Lookups[i].name = root}) <= 1
    /\ \A k \in 1 .. Len(out) :
          out[k][1] = root \/ looks_like_app_component(out[k][1])

\* the node of the entry is added to the empty tree only
EntryAddedFirst ==
    (out' # out /\ out'[Len(out')][1] = root) => out = << >>

\* C17: the entry is exempt from looks_like_app_component and not from the
\* visited set: a located entry is a key of the tree even when it fails the
\* predicate, and is inserted once only, also when it is a call target of
\* itself or of a descendant; every other name that fails the predicate is
\* skipped without a lookup.
C17_EntryExemptButVisited ==
    /\ []EntryInsertedOnce
    /\ []OnlyEntryExempt
    /\ [][EntryAddedFirst]_vars

\* a returned tree whose entry fails the predicate and is a call target of
\* its descendant, which also calls a declared name that fails the predicate
\* and was never looked up
C17_Witness ==
    /\ pc = "returned"
    /\ Len(ret) = 2
    /\ ~looks_like_app_component(root)
    /\ ret[1][1] = root
    /\ root \in Elems(ret[2][2].child_calls)
    /\ \E c \in Elems(ret[2][2].child_calls) :
          /\ c # root
          /\ ~looks_like_app_component(c)
          /\ find_function_start(js, c) # NotFound
          /\ \A i \in 1 .. Len(gets) : gets[i].name # c

\* the strings that are in the list field of some node of tree
InSomeNode(tree, field) ==
    UNION {{tree[k][2][field][i] : i \in 1 .. Len(tree[k][2][field])} :
             k \in 1 .. Len(tree)}

\* list is strictly increasing and holds the first cap strings of S, all of
\* them when S has no more than cap
IsSortedCut(list, S, cap) ==
    /\ \A i, j \in 1 .. Len(list) : i < j => StrLess(list[i], list[j])
    /\ \A i \in 1 .. Len(list) : list[i] \in S
    /\ Len(list) = IF Cardinality(S) <= cap THEN Cardinality(S) ELSE cap
    /\ \A x \in S :
          (\A i \in 1 .. Len(list) : list[i] # x) =>
             \A i \in 1 .. Len(list) : StrLess(list[i], x)

\* the aggregated fields of a page are the unions over the nodes of its tree
PageIsUnionOfTree(pg) ==
    /\ pg.tree # << >>
    /\ pg.tree[1][1] = pg.component
    /\ IsSortedCut(pg.i18n_ids, InSomeNode(pg.tree, "i18n_ids"),
                   Cardinality(InSomeNode(pg.tree, "i18n_ids")))
    /\ IsSortedCut(pg.classnames, InSomeNode(pg.tree, "classnames"),
                   PageListCap)
    /\ IsSortedCut(pg.child_calls, InSomeNode(pg.tree, "child_calls"),
                   PageListCap)

\* the page a step adds for a found component holds the tree just built
PageHoldsTheTree ==
    (pages' # pages /\ pages'[Len(pages')][2].found) =>
        /\ pc = "tree"
        /\ pages'[Len(pages')][2].tree = out
        /\ pages'[Len(pages')][2].component = root

\* C18: for every route whose component is found, the identifier literals
\* of its page are exactly the union of the lists of the nodes of its tree,
\* and its class names and call targets are the sorted union of the lists
\* of the nodes cut to the first 800; nothing that is in no node is in a
\* field of the page.
C18_PageIsUnionOfTree ==
    /\ [][PageHoldsTheTree]_vars
    /\ [](\A k \in 1 .. Len(pages) :
            pages[k][2].found => PageIsUnionOfTree(pages[k][2]))
    /\ [](pc = "done" =>
            \A k \in 1 .. Len(report.routes) :
               report.routes[k][2].found =>
                  PageIsUnionOfTree(report.routes[k][2]))

\* a report with a page of a tree of four nodes, each of whose three fields
\* holds a string that is not in the node of the component itself
C18_Witness ==
    /\ pc = "done"
    /\ \E k \in 1 .. Len(report.routes) :
          /\ report.routes[k][2].found
          /\ Len(report.routes[k][2].tree) = 4
          /\ \A f \in {"i18n_ids", "classnames", "child_calls"} :
                \E x \in Elems(report.routes[k][2][f]) :
                   x \notin Elems(report.routes[k][2].tree[1][2][f])

\* every record of the cache is still there after the step, unchanged
RecordsKept ==
    \A n \in DOMAIN cache : n \in DOMAIN cache' /\ cache'[n] = cache[n]

\* the record of a name is the one its first get returned
RecordIsTheFirst ==
    \A n \in DOMAIN cache :
        \E i \in 1 .. Len(gets) :
            /\ gets[i].name = n /\ gets[i].scanned /\ gets[i].info = cache[n]
            /\ \A j \in 1 .. (i - 1) : gets[j].name # n

\* C19: a record is not changed once it is in the cache: no get, no step of
\* a tree build, the cut lists of the tree nodes included, and no
\* aggregation changes a field of it, and no entry of the cache is replaced
\* or removed during the run.
C19_RecordsImmutable ==
    /\ [][RecordsKept]_vars
    /\ []RecordIsTheFirst

\* a finished run of two found routes, with three records or more, one of
\* which was returned from the cache to the second tree
C19_Witness ==
    /\ pc = "done"
    /\ Len(report.routes) = 2
    /\ report.routes[1][2].found /\ report.routes[2][2].found
    /\ Cardinality(DOMAIN cache) >= 3
    /\ \E i \in 1 .. Len(gets) :
          i > tree_from /\ ~gets[i].scanned /\ gets[i].info.found

\* the names at most k call-target edges from rootname, the edges being
\* those from a node of tree to the call targets of it that pass
\* looks_like_app_component
RECURSIVE Within(_, _, _)
Within(tree, rootname, k) ==
    IF k = 0 THEN {rootname}
    ELSE LET near == Within(tree, rootname, k - 1)
         IN  near \cup
             {c \in UNION {Elems(tree[i][2].child_calls) :
                             i \in {j \in 1 .. Len(tree) : tree[j][1] \in near}} :
                looks_like_app_component(c)}

\* the least number of such edges from rootname to name, -1 when there is
\* no path
Distance(tree, rootname, name) ==
    IF name \notin Within(tree, rootname, Len(tree))
    THEN -1
    ELSE CHOOSE k \in 0 .. Len(tree) :
            /\ name \in Within(tree, rootname, k)
            /\ k = 0 \/ name \notin Within(tree, rootname, k - 1)

\* the depths of the queue go up from front to back, by one at most in all
QueueLevelOrdered ==
    /\ \A i, j \in 1 .. Len(q) : i < j => q[i][2] <= q[j][2]
    /\ q # << >> => q[Len(q)][2] - q[1][2] <= 1

\* a step pops the head of the queue; a name dequeued for the first time is
\* dequeued at its distance from the entry
FirstDequeueAtDistance ==
    q' # q =>
        /\ SubSeq(q', 1, Len(q) - 1) = Tail(q)
        /\ q[1][1] \notin seen => q[1][2] = Distance(out, root, q[1][1])
        /\ out' # out => out'[Len(out')][1] = q[1][1]

\* the keys of the tree are in the order of their distances from the entry
InsertedByDistance ==
    \A i, j \in 1 .. Len(out) :
        /\ Distance(out, root, out[i][1]) >= 0
        /\ i < j => Distance(out, root, out[i][1])
                       <= Distance(out, root, out[j][1])

\* C20: the traversal goes level by level: the depths of the queued pairs
\* never decrease from front to back and differ by one at most; a name is
\* dequeued for the first time, and inserted, at its least distance from the
\* entry along call-target edges through located, plausible nodes; the keys
\* of the tree are in non-decreasing order of that distance.
C20_LevelOrder ==
    /\ []QueueLevelOrdered
    /\ [][FirstDequeueAtDistance]_vars
    /\ []InsertedByDistance

\* a returned tree with a node that is a call target of two nodes at
\* different distances from the entry
C20_Witness ==
    /\ pc = "returned"
    /\ Len(ret) >= 3
    /\ \E k, a, b \in 1 .. Len(ret) :
          /\ ret[k][1] \in Elems(ret[a][2].child_calls)
          /\ ret[k][1] \in Elems(ret[b][2].child_calls)
          /\ Distance(ret, root, ret[a][1]) < Distance(ret, root, ret[b][1])
          /\ Distance(ret, root, ret[k][1])
                = Distance(ret, root, ret[a][1]) + 1
          /\ k # a /\ k # b /\ ret[k][1] # root

-----------------------------------------------------------------------------
(* C21 - C22 *)

\* a node cap no tree of text reaches: every key of a tree has a
\* declaration of its own in text, so a tree has Len(text) keys at most
Uncapped(text) == Len(text) + 1

\* the tree of the run's source and entry with max_depth = md and a node
\* cap that is never reached
UncappedTree(md) == collect_component_tree(js, root, md, Uncapped(js))

\* list[:k] for a count k of entries, none when k <= 0
FirstEntries(list, k) == IF k <= 0 THEN << >> ELSE Take(list, k)

\* capped is the first k entries of full, and the keys of full are keys of
\* deeper
TruncatesOnly(capped, k, full, deeper, nocap) ==
    /\ Len(full) < nocap
    /\ Len(deeper) < nocap
    /\ capped = FirstEntries(full, k)
    /\ Elems(DictKeys(full)) \subseteq Elems(DictKeys(deeper))

\* C21: the node cap only truncates: the tree returned with max_nodes = k
\* is the first k entries, in insertion order, of the tree built from the
\* same source and entry with the same max_depth and a node cap that is
\* never reached (all of it when it has fewer than k entries); and with
\* such a cap the keys of the tree for max_depth = d are keys of the tree
\* for max_depth = d + 1.
C21_NodeCapOnlyTruncates ==
    pc = "returned" =>
        TruncatesOnly(ret, max_nodes, UncappedTree(max_depth),
                      UncappedTree(max_depth + 1), Uncapped(js))

\* a cut in earnest, and a deeper tree with more keys
C21_CutAndGrown(capped, k, full, deeper) ==
    /\ k >= 1
    /\ Len(full) > k + 1
    /\ Len(capped) = k
    /\ Len(deeper) > Len(full)

\* a returned tree that the node cap cut by two entries or more, at a
\* max_depth where one more level brings more keys
C21_Witness ==
    /\ pc = "returned"
    /\ C21_CutAndGrown(ret, max_nodes, UncappedTree(max_depth),
                       UncappedTree(max_depth + 1))

\* the record the traversal under way got for name
RecordOf(name) ==
    Lookups[CHOOSE i \in 1 .. Len(Lookups) : Lookups[i].name = name].info

\* a lookup of the entry by the traversal under way found it
EntryLocated ==
    \E i \in 1 .. Len(Lookups) :
        Lookups[i].name = root /\ Lookups[i].info.found

\* the first key is the entry and every later key is a call target of the
\* record of an earlier key; the list a node holds is that record's list,
\* cut to NodeListCap names
ConnectedFromEntry ==
    /\ out # << >> => out[1][1] = root
    /\ \A k \in 2 .. Len(out) :
          \E e \in 1 .. (k - 1) :
              out[k][1] \in Elems(RecordOf(out[e][1]).child_calls)
    /\ \A e \in 1 .. Len(out) :
          out[e][2].child_calls
              = Take(RecordOf(out[e][1]).child_calls, NodeListCap)

====
